---- MODULE Spec2Model ----
(***************************************************************************)
(* Model of api/index.py: the FastAPI handlers that hand out presigned S3  *)
(* URLs and drive S3 multipart uploads (initiate / complete / abort), and  *)
(* the notification endpoint.  The handlers keep no state of their own:    *)
(* the only upload state is the set of multipart uploads held by S3.       *)
(*                                                                         *)
(* Strings that the code takes apart or builds (filenames, timestamps,     *)
(* object keys) are sequences of one-character strings.                    *)
(***************************************************************************)
EXTENDS Integers, Sequences, FiniteSets, TLC

(* ------------------------------ bounds -------------------------------- *)
\* uploads S3 will open in one run
MaxUploads == 1
\* uploads opened in the runs where the clock advances
MaxBurstUploads == 2
\* the code presigns 10000 part URLs (total_parts); the model scales it down
MaxParts == 3
\* the clock runs over seconds 0..MaxSecond, microseconds 0..MaxMicrosecond
MaxSecond == 1
MaxMicrosecond == 1
\* requests received, and uploads opened, in the concurrent runs
MaxInflight == 2
MaxRaceUploads == 1

VARIABLES
    clock,      \* datetime.now(): the wall clock the handlers read
    uploads,    \* S3: the multipart uploads, indexed by UploadId
    handles,    \* the session handles clients were given by initiate
    inflight,   \* requests received whose handler has not run yet
    answered,   \* the requests taken from inflight, with their responses
    last        \* the most recent request handled, with its response

vars == <<clock, uploads, handles, inflight, answered, last>>

(* --------------------------- configuration ---------------------------- *)
BUCKET_NAME == "bucket"

ALLOWED_EXTENSIONS ==
    { <<".", "e", "p", "u", "b">>, <<".", "p", "d", "f">>,
      <<".", "m", "o", "b", "i">>, <<".", "a", "z", "w">>,
      <<".", "a", "z", "w", "3">>, <<".", "d", "o", "c">>,
      <<".", "d", "o", "c", "x">>, <<".", "z", "i", "p">> }

CONTENT_TYPES(extension) ==
    CASE extension = <<".", "e", "p", "u", "b">> -> "application/epub+zip"
      [] extension = <<".", "p", "d", "f">> -> "application/pdf"
      [] extension = <<".", "m", "o", "b", "i">> -> "application/x-mobipocket-ebook"
      [] extension = <<".", "a", "z", "w">> -> "application/vnd.amazon.ebook"
      [] extension = <<".", "a", "z", "w", "3">> -> "application/vnd.amazon.ebook"
      [] extension = <<".", "d", "o", "c">> -> "application/msword"
      [] extension = <<".", "d", "o", "c", "x">> ->
            "application/vnd.openxmlformats-officedocument.wordprocessingml.document"
      [] extension = <<".", "z", "i", "p">> -> "application/zip"
      [] OTHER -> "application/octet-stream"

total_parts == MaxParts

ExpiresIn == 86400

(* ------------------------- string operations -------------------------- *)
\* str.lower() on the characters the modelled filenames use
LowerChar(c) ==
    CASE c = "A" -> "a" [] c = "D" -> "d" [] c = "F" -> "f"
      [] c = "P" -> "p" [] OTHER -> c

lower(s) == [i \in 1..Len(s) |-> LowerChar(s[i])]

\* index of the last occurrence of character c in s, 0 when there is none
rfind(s, c) ==
    LET hits == {i \in 1..Len(s) : s[i] = c}
    IN IF hits = {} THEN 0 ELSE CHOOSE i \in hits : \A j \in hits : j <= i

\* os.path.splitext: the extension starts at the last dot of the last path
\* component, unless only dots precede it there
splitext(p) ==
    LET sepIndex == rfind(p, "/")
        dotIndex == rfind(p, ".")
    IN IF dotIndex > sepIndex
          /\ \E k \in (sepIndex + 1)..(dotIndex - 1) : p[k] # "."
       THEN <<SubSeq(p, 1, dotIndex - 1), SubSeq(p, dotIndex, Len(p))>>
       ELSE <<p, <<>>>>

get_content_type(filename) == CONTENT_TYPES(splitext(lower(filename))[2])

DigitChars == <<"0", "1", "2", "3", "4", "5", "6", "7", "8", "9">>

\* n as a zero-padded decimal of the given width (%Y, %m, ... %f)
RECURSIVE Pad(_, _)
Pad(n, width) ==
    IF width = 0 THEN <<>>
    ELSE Pad(n \div 10, width - 1) \o <<DigitChars[(n % 10) + 1]>>

\* datetime.strftime('%Y%m%d%H%M%S%f')
strftime(t) ==
    Pad(t.year, 4) \o Pad(t.month, 2) \o Pad(t.day, 2) \o Pad(t.hour, 2)
        \o Pad(t.minute, 2) \o Pad(t.second, 2) \o Pad(t.microsecond, 6)

UPLOADS_PREFIX == <<"u", "p", "l", "o", "a", "d", "s", "/">>

\* f"uploads/{timestamp}_{request.filename}"
ObjectKey(timestamp, filename) == UPLOADS_PREFIX \o timestamp \o <<"_">> \o filename

\* f"uploads/{request.filename}"
RequestKey(filename) == UPLOADS_PREFIX \o filename

(* ----------------------- the storage backend (S3) --------------------- *)
\* Each gateway call takes an outcome gw: "ok" when S3 serves the call,
\* "fail" when the call raises without effect (network, credentials, a
\* part S3 refuses).  An upload is "open", "completed" or "aborted".

StateOf(ups, Key, UploadId) ==
    IF UploadId \in DOMAIN ups /\ ups[UploadId].Key = Key
    THEN ups[UploadId].state
    ELSE "none"

\* s3_client.create_multipart_upload: S3 assigns a fresh UploadId
S3CreateMultipartUpload(ups, Key, ContentType, gw) ==
    IF gw = "ok"
    THEN [error |-> "", UploadId |-> Len(ups) + 1,
          uploads |-> Append(ups, [Key |-> Key, ContentType |-> ContentType,
                                   state |-> "open", rejected |-> FALSE])]
    ELSE [error |-> "RequestFailed", UploadId |-> 0, uploads |-> ups]

\* s3_client.generate_presigned_url: signs the parameters locally
generate_presigned_url(ClientMethod, Params, expires) ==
    [ClientMethod |-> ClientMethod, Params |-> Params, ExpiresIn |-> expires]

\* what S3 refuses in a part list: no part, part numbers not ascending,
\* a part without ETag
S3PartsError(Parts) ==
    IF Parts = <<>> THEN "MalformedXML"
    ELSE IF \E i \in 1..(Len(Parts) - 1) :
                Parts[i].PartNumber >= Parts[i + 1].PartNumber
         THEN "InvalidPartOrder"
    ELSE IF \E i \in 1..Len(Parts) : Parts[i].ETag = "" THEN "InvalidPart"
    ELSE ""

\* s3_client.complete_multipart_upload: on any error the upload is untouched
S3CompleteMultipartUpload(ups, Key, UploadId, Parts, gw) ==
    LET st == StateOf(ups, Key, UploadId)
        error == IF st # "open" THEN "NoSuchUpload"
                 ELSE IF S3PartsError(Parts) # "" THEN S3PartsError(Parts)
                 ELSE IF gw # "ok" THEN "RequestFailed"
                 ELSE ""
    IN [error |-> error,
        uploads |-> IF error = ""
                    THEN [ups EXCEPT ![UploadId].state = "completed"]
                    ELSE IF st = "open"
                    THEN [ups EXCEPT ![UploadId].rejected = TRUE]
                    ELSE ups]

\* s3_client.abort_multipart_upload: an upload aborted before may be
\* answered with success again or with NoSuchUpload
S3AbortMultipartUpload(ups, Key, UploadId, gw) ==
    LET st == StateOf(ups, Key, UploadId)
        error == IF st \in {"none", "completed"} THEN "NoSuchUpload"
                 ELSE IF gw # "ok"
                 THEN (IF st = "aborted" THEN "NoSuchUpload" ELSE "RequestFailed")
                 ELSE ""
    IN [error |-> error,
        uploads |-> IF error = ""
                    THEN [ups EXCEPT ![UploadId].state = "aborted"]
                    ELSE ups]

(* ----------------------------- responses ------------------------------ *)
\* raise HTTPException(status_code, detail)
HTTPException(status_code, detail) ==
    [status |-> status_code, detail |-> detail, body |-> <<>>]

\* a returned dict / JSONResponse
OK(body) == [status |-> 200, detail |-> "", body |-> body]

\* the record kept of a handled request: the request, the response, the
\* gateway calls the handler made, the state of the addressed upload before
\* the handler ran and the upload the handler opened (0: none)
Handled(op, request, response, gwCalls, pre, opened) ==
    [op |-> op, request |-> request, status |-> response.status,
     detail |-> response.detail, body |-> response.body,
     gw |-> gwCalls, pre |-> pre, opened |-> opened]

(* ------------------------------ handlers ------------------------------ *)
\* PresignParts with part numbers counted from 0, as range(total_parts) would
RECURSIVE PresignParts_ZeroBased(_, _, _, _, _)
PresignParts_ZeroBased(key, upload_id, part_number, failAt, urls) ==
    IF part_number > total_parts THEN [error |-> "", urls |-> urls]
    ELSE IF part_number = failAt THEN [error |-> "PresignFailed", urls |-> urls]
    ELSE PresignParts_ZeroBased(key, upload_id, part_number + 1, failAt,
            Append(urls,
                   generate_presigned_url("upload_part",
                       [Bucket |-> BUCKET_NAME, Key |-> key,
                        UploadId |-> upload_id, PartNumber |-> part_number - 1],
                       ExpiresIn)))

\* the loop of initiate_multipart_upload over range(1, total_parts + 1);
\* failAt is the part number whose presigning raises (0: none does)
RECURSIVE PresignParts(_, _, _, _, _)
PresignParts(key, upload_id, part_number, failAt, urls) ==
    IF part_number > total_parts THEN [error |-> "", urls |-> urls]
    ELSE IF part_number = failAt THEN [error |-> "PresignFailed", urls |-> urls]
    ELSE PresignParts(key, upload_id, part_number + 1, failAt,
            Append(urls,
                   generate_presigned_url("upload_part",
                       [Bucket |-> BUCKET_NAME, Key |-> key,
                        UploadId |-> upload_id, PartNumber |-> part_number],
                       ExpiresIn)))

\* the gateway calls initiate has made when n parts were presigned or tried
InitiateCalls(key, n) ==
    <<[call |-> "create_multipart_upload", Key |-> key]>>
        \o [i \in 1..n |-> [call |-> "generate_presigned_url", Key |-> key]]

\* POST /initiate-multipart
initiate_multipart_upload(request, gwCreate, failAt) ==
    LET timestamp == strftime(clock)
        key == ObjectKey(timestamp, request.filename)
        content_type == get_content_type(request.filename)
        response == S3CreateMultipartUpload(uploads, key, content_type, gwCreate)
        upload_id == response.UploadId
        signed == PresignParts(key, upload_id, 1, failAt, <<>>)
    IN IF response.error # ""
       THEN /\ UNCHANGED <<uploads, handles>>
            /\ last' = Handled("initiate", request,
                               HTTPException(500, response.error),
                               InitiateCalls(key, 0), "none", 0)
       ELSE IF signed.error # ""
       THEN /\ uploads' = response.uploads
            /\ UNCHANGED handles
            /\ last' = Handled("initiate", request,
                               HTTPException(500, signed.error),
                               InitiateCalls(key, Len(signed.urls) + 1),
                               "none", upload_id)
       ELSE /\ uploads' = response.uploads
            /\ handles' = handles \cup
                    {[uploadId |-> upload_id, key |-> key,
                      filename |-> request.filename, second |-> clock.second]}
            /\ last' = Handled("initiate", request,
                               OK([uploadId |-> upload_id, urls |-> signed.urls,
                                   key |-> key]),
                               InitiateCalls(key, Len(signed.urls)),
                               "none", upload_id)

\* complete_multipart_upload with an except branch that gives the upload up:
\* it aborts the upload when S3 refuses to complete it
complete_multipart_upload_AbortsOnError(request, gw) ==
    LET Key == RequestKey(request.filename)
        result == S3CompleteMultipartUpload(uploads, Key, request.uploadId,
                                            request.parts, gw)
    IN /\ uploads' = IF result.error = ""
                     THEN result.uploads
                     ELSE S3AbortMultipartUpload(result.uploads, Key,
                                                 request.uploadId, "ok").uploads
       /\ UNCHANGED handles
       /\ last' = Handled("complete", request,
                          IF result.error = ""
                          THEN OK([status |-> "success"])
                          ELSE HTTPException(500, result.error),
                          <<[call |-> "complete_multipart_upload", Key |-> Key,
                             UploadId |-> request.uploadId]>>,
                          StateOf(uploads, Key, request.uploadId), 0)

\* POST /complete-multipart
complete_multipart_upload(request, gw) ==
    LET Key == RequestKey(request.filename)
        result == S3CompleteMultipartUpload(uploads, Key, request.uploadId,
                                            request.parts, gw)
    IN /\ uploads' = result.uploads
       /\ UNCHANGED handles
       /\ last' = Handled("complete", request,
                          IF result.error = ""
                          THEN OK([status |-> "success"])
                          ELSE HTTPException(500, result.error),
                          <<[call |-> "complete_multipart_upload", Key |-> Key,
                             UploadId |-> request.uploadId]>>,
                          StateOf(uploads, Key, request.uploadId), 0)

\* POST /abort-multipart
abort_multipart_upload(request, gw) ==
    LET Key == RequestKey(request.filename)
        result == S3AbortMultipartUpload(uploads, Key, request.uploadId, gw)
    IN /\ uploads' = result.uploads
       /\ UNCHANGED handles
       /\ last' = Handled("abort", request,
                          IF result.error = ""
                          THEN OK([status |-> "success"])
                          ELSE HTTPException(500, result.error),
                          <<[call |-> "abort_multipart_upload", Key |-> Key,
                             UploadId |-> request.uploadId]>>,
                          StateOf(uploads, Key, request.uploadId), 0)

\* send_bulk_admin_notification: True when the mail went out, False when
\* anything in building or sending it raised
send_bulk_admin_notification(files, smtp) == smtp = "ok"

\* POST /notify-upload
notify_upload(data, smtp) ==
    LET success == send_bulk_admin_notification(data.files, smtp)
    IN /\ UNCHANGED <<uploads, handles>>
       /\ last' = Handled("notify", data,
                          IF ~success
                          THEN HTTPException(500, "Failed to send email notification")
                          ELSE OK([status |-> "success"]),
                          <<[call |-> "smtp", files |-> Len(data.files)]>>,
                          "none", 0)

\* POST /generate-upload-url: the HTTPException raised for a bad extension
\* is caught by the handler's own "except Exception" and raised again as 500
generate_upload_url(upload_request, gw) ==
    LET file_extension == splitext(lower(upload_request.filename))[2]
        timestamp == strftime(clock)
        filename == timestamp \o <<"_">> \o upload_request.filename
        content_type == get_content_type(upload_request.filename)
        Params == [Bucket |-> BUCKET_NAME, Key |-> UPLOADS_PREFIX \o filename,
                   ContentType |-> content_type]
    IN /\ UNCHANGED <<uploads, handles>>
       /\ last' =
            IF file_extension \notin ALLOWED_EXTENSIONS
            THEN Handled("generate", upload_request,
                         HTTPException(500, "400: Invalid file type"),
                         <<>>, "none", 0)
            ELSE IF gw # "ok"
            THEN Handled("generate", upload_request,
                         HTTPException(500, "PresignFailed"),
                         <<[call |-> "generate_presigned_url",
                            Key |-> Params.Key]>>, "none", 0)
            ELSE Handled("generate", upload_request,
                         OK([upload_url |-> generate_presigned_url(
                                                "put_object", Params, ExpiresIn),
                             filename |-> filename]),
                         <<[call |-> "generate_presigned_url",
                            Key |-> Params.Key]>>, "none", 0)

(* ------------------------------- inputs ------------------------------- *)
\* a.pdf, a.PDF (allowed once lowered), a.exe (not allowed), .zip (a
\* dot-file: it has no extension)
Filenames ==
    { <<"a", ".", "p", "d", "f">>, <<"a", ".", "P", "D", "F">>,
      <<"a", ".", "e", "x", "e">>, <<".", "z", "i", "p">> }

\* the filenames sent to initiate: an allowed and a disallowed extension
InitiateFilenames == { <<"a", ".", "p", "d", "f">>, <<"a", ".", "e", "x", "e">> }

GatewayOutcomes == {"ok", "fail"}

\* one entry of MultipartUploadComplete.parts; the request carries both
\* fields as strings, the model keeps the part number as a number
Part(n, etag) == [PartNumber |-> n, ETag |-> etag]

PartLists ==
    { <<>>,
      <<Part(1, "abc123")>>,
      <<Part(1, "abc123"), Part(2, "def456")>>,
      <<Part(2, "def456"), Part(1, "abc123")>>,
      <<Part(1, "abc123"), Part(3, "ghi789")>>,
      <<Part(1, "")>> }

FileLists ==
    { <<>>,
      <<[filename |-> "stored", originalName |-> "a.pdf", filesize |-> 1024]>> }

\* what a client holding handle h sends as "filename": the key without its
\* "uploads/" prefix, or the key as returned
StripPrefix(key) == SubSeq(key, Len(UPLOADS_PREFIX) + 1, Len(key))

ClientFilenames(h) == {StripPrefix(h.key), h.key}

CompleteRequests ==
    UNION { { [filename |-> f, uploadId |-> h.uploadId, parts |-> parts,
               issued |-> StateOf(uploads, RequestKey(f), h.uploadId)] :
                f \in ClientFilenames(h), parts \in PartLists } : h \in handles }

AbortRequests ==
    UNION { { [filename |-> f, uploadId |-> h.uploadId,
               issued |-> StateOf(uploads, RequestKey(f), h.uploadId)] :
                f \in ClientFilenames(h) } : h \in handles }

(* ------------------------------- actions ------------------------------ *)
Init ==
    /\ clock = [year |-> 2024, month |-> 1, day |-> 1, hour |-> 0,
                minute |-> 0, second |-> 0, microsecond |-> 0]
    /\ uploads = <<>>
    /\ handles = {}
    /\ inflight = {}
    /\ answered = {}
    /\ last = Handled("none", <<>>, OK(<<>>), <<>>, "none", 0)

\* time passes: to the next microsecond, or to the next second
Tick ==
    /\ \/ /\ clock.microsecond < MaxMicrosecond
          /\ clock' = [clock EXCEPT !.microsecond = @ + 1]
       \/ /\ clock.second < MaxSecond
          /\ clock' = [clock EXCEPT !.second = @ + 1, !.microsecond = 0]
    /\ UNCHANGED <<uploads, handles, inflight, answered, last>>

\* POST /initiate-multipart with a filename among filenames, while S3 has
\* opened fewer than cap uploads
Initiate(filenames, cap) ==
    /\ Len(uploads) < cap
    /\ \E filename \in filenames, gwCreate \in GatewayOutcomes,
          failAt \in 0..total_parts :
            initiate_multipart_upload(
                [filename |-> filename, contentType |-> "declared"],
                gwCreate, failAt)
    /\ UNCHANGED <<clock, inflight, answered>>

InitiateMultipart == Initiate(InitiateFilenames, MaxUploads)

CompleteMultipart ==
    /\ \E request \in CompleteRequests, gw \in GatewayOutcomes :
            complete_multipart_upload(request, gw)
    /\ UNCHANGED <<clock, inflight, answered>>

AbortMultipart ==
    /\ \E request \in AbortRequests, gw \in GatewayOutcomes :
            abort_multipart_upload(request, gw)
    /\ UNCHANGED <<clock, inflight, answered>>

NotifyUpload ==
    /\ \E files \in FileLists, smtp \in GatewayOutcomes :
            notify_upload([files |-> files], smtp)
    /\ UNCHANGED <<clock, inflight, answered>>

GenerateUploadUrl ==
    /\ \E filename \in Filenames, gw \in GatewayOutcomes :
            generate_upload_url([filename |-> filename], gw)
    /\ UNCHANGED <<clock, inflight, answered>>

Next ==
    \/ InitiateMultipart
    \/ CompleteMultipart
    \/ AbortMultipart
    \/ NotifyUpload
    \/ GenerateUploadUrl

\* every request is handled as soon as it arrives, all at one clock reading
Spec == Init /\ [][Next]_vars

(* ------- bursts of initiate requests while the clock advances -------- *)
InitiateBurst == Initiate({<<"a", ".", "p", "d", "f">>}, MaxBurstUploads)

NextBurst ==
    \/ Tick
    \/ InitiateBurst

SpecBurst == Init /\ [][NextBurst]_vars

(* ---- requests in flight: handlers of several workers run concurrently ---- *)
\* A request waits in inflight between its arrival and the one gateway call
\* of its handler; "issued" is the state its upload had when it arrived.
InitiateRace == Initiate({<<"a", ".", "p", "d", "f">>}, MaxRaceUploads)

Answer(r, handled) ==
    [op |-> r.op, request |-> r.request, status |-> handled.status,
     detail |-> handled.detail]

ReceiveComplete ==
    /\ Cardinality(inflight) + Cardinality(answered) < MaxInflight
    /\ \E request \in CompleteRequests :
            inflight' = inflight \cup {[op |-> "complete", request |-> request]}
    /\ UNCHANGED <<clock, uploads, handles, answered, last>>

ReceiveAbort ==
    /\ Cardinality(inflight) + Cardinality(answered) < MaxInflight
    /\ \E request \in AbortRequests :
            inflight' = inflight \cup {[op |-> "abort", request |-> request]}
    /\ UNCHANGED <<clock, uploads, handles, answered, last>>

RunComplete ==
    /\ \E r \in inflight, gw \in GatewayOutcomes :
            /\ r.op = "complete"
            /\ complete_multipart_upload(r.request, gw)
            /\ inflight' = inflight \ {r}
            /\ answered' = answered \cup {Answer(r, last')}
    /\ UNCHANGED clock

RunAbort ==
    /\ \E r \in inflight, gw \in GatewayOutcomes :
            /\ r.op = "abort"
            /\ abort_multipart_upload(r.request, gw)
            /\ inflight' = inflight \ {r}
            /\ answered' = answered \cup {Answer(r, last')}
    /\ UNCHANGED clock

NextConcurrent ==
    \/ InitiateRace
    \/ ReceiveComplete
    \/ ReceiveAbort
    \/ RunComplete
    \/ RunAbort

SpecConcurrent == Init /\ [][NextConcurrent]_vars

(* ------------------------------- claims ------------------------------- *)
\* the state now of the upload the last request addressed
AddressedState ==
    StateOf(uploads, RequestKey(last.request.filename), last.request.uploadId)

\* C1: when a complete and an abort were both issued on the same session
\* while it was fresh and both have been answered, exactly one succeeded, the
\* other was answered InvalidStateTransition, and the session is in the
\* winner's terminal state.
C1_ExactlyOneWinsRace ==
    \A c \in answered, a \in answered :
        ( /\ c.op = "complete" /\ a.op = "abort"
          /\ c.request.uploadId = a.request.uploadId
          /\ c.request.issued = "open" /\ a.request.issued = "open" )
        => LET st == uploads[c.request.uploadId].state
           IN \/ /\ c.status = 200
                 /\ a.status # 200 /\ a.detail = "InvalidStateTransition"
                 /\ st = "completed"
              \/ /\ a.status = 200
                 /\ c.status # 200 /\ c.detail = "InvalidStateTransition"
                 /\ st = "aborted"

\* C2: a complete on a session that is already completed is answered
\* InvalidStateTransition and makes no gateway call.
C2_CompleteOnCompletedRejectedLocally ==
    (last.op = "complete" /\ last.pre = "completed")
        => /\ last.status # 200
           /\ last.detail = "InvalidStateTransition"
           /\ last.gw = <<>>

\* C3: an abort on a session already aborted succeeds without a gateway
\* call, and a complete on an aborted session is answered
\* InvalidStateTransition.
C3_AbortIdempotentThenCompleteRejected ==
    /\ (last.op = "abort" /\ last.pre = "aborted")
            => (last.status = 200 /\ last.gw = <<>>)
    /\ (last.op = "complete" /\ last.pre = "aborted")
            => (last.status # 200 /\ last.detail = "InvalidStateTransition")

\* C4: a complete on an open session either succeeds, or the gateway's
\* refusal is reported to the caller as an error and the session is still
\* open afterwards (so that it can still be completed or aborted).
C4_RejectedCompleteLeavesSessionOpen ==
    (last.op = "complete" /\ last.pre = "open")
        => \/ last.status = 200 /\ AddressedState = "completed"
           \/ /\ last.status = 500
              /\ last.detail \in {"RequestFailed", "MalformedXML",
                                  "InvalidPartOrder", "InvalidPart"}
              /\ AddressedState = "open"

\* C4 witness: a complete has succeeded on a session on which an earlier
\* complete had been refused.
C4_Witness_RetrySucceeds ==
    /\ last.op = "complete" /\ last.status = 200 /\ last.pre = "open"
    /\ uploads[last.request.uploadId].rejected
    /\ uploads[last.request.uploadId].state = "completed"

\* C5: when initiate answers with an error, no upload it opened is left
\* open on the storage backend and no handle was registered.
C5_FailedInitiateLeavesNoOrphan ==
    (last.op = "initiate" /\ last.status # 200)
        => /\ last.opened = 0 \/ uploads[last.opened].state # "open"
           /\ \A h \in handles : h.uploadId # last.opened

\* C6: initiate with a filename whose extension is not allowed is answered
\* UnsupportedFileType (400), opens no upload and registers no session.
C6_DisallowedExtensionRejected ==
    ( /\ last.op = "initiate"
      /\ splitext(lower(last.request.filename))[2] \notin ALLOWED_EXTENSIONS )
        => /\ last.status = 400
           /\ last.detail = "UnsupportedFileType"
           /\ last.gw = <<>>
           /\ last.opened = 0

\* a part list the orchestrator is to refuse: empty, part numbers not
\* strictly increasing or not contiguous, or a part with an empty digest
InvalidPartList(parts) ==
    \/ parts = <<>>
    \/ \E i \in 1..(Len(parts) - 1) :
            parts[i + 1].PartNumber # parts[i].PartNumber + 1
    \/ \E i \in 1..Len(parts) : parts[i].ETag = ""

\* C7: a complete with an invalid part list is answered InvalidPartList and
\* makes no gateway call.
C7_InvalidPartListRejectedBeforeGateway ==
    (last.op = "complete" /\ InvalidPartList(last.request.parts))
        => /\ last.status # 200
           /\ last.detail = "InvalidPartList"
           /\ last.gw = <<>>

\* C8: a successful initiate returns exactly total_parts URLs, the i-th of
\* them presigned for uploading part number i of the key and upload id
\* returned with them, which are those of the upload it opened.
C8_PartUrlsOrderedAndScoped ==
    (last.op = "initiate" /\ last.status = 200)
        => /\ Len(last.body.urls) = total_parts
           /\ \A i \in 1..Len(last.body.urls) :
                /\ last.body.urls[i].ClientMethod = "upload_part"
                /\ last.body.urls[i].Params.PartNumber = i
                /\ last.body.urls[i].Params.Key = last.body.key
                /\ last.body.urls[i].Params.UploadId = last.body.uploadId
           /\ last.body.uploadId = last.opened
           /\ uploads[last.body.uploadId].Key = last.body.key

\* C8 witness: an initiate has succeeded.
C8_Witness_InitiateSucceeded ==
    /\ last.op = "initiate" /\ last.status = 200
    /\ Len(last.body.urls) > 1

\* C9: two handles given out for the same filename within the same second
\* carry distinct object keys.
C9_BurstKeysDistinct ==
    \A h1 \in handles, h2 \in handles :
        ( /\ h1.uploadId # h2.uploadId
          /\ h1.filename = h2.filename
          /\ h1.second = h2.second )
        => h1.key # h2.key

\* C10: notify-upload always answers with status 200.
C10_NotifyAlways200 ==
    last.op = "notify" => last.status = 200

\* C11: generate-upload-url with a filename whose extension is not allowed
\* answers with status 400 and detail "Invalid file type", and presigns
\* nothing.
C11_GenerateRejectsWith400 ==
    ( /\ last.op = "generate"
      /\ splitext(lower(last.request.filename))[2] \notin ALLOWED_EXTENSIONS )
        => /\ last.status = 400
           /\ last.detail = "Invalid file type"
           /\ last.gw = <<>>

\* C12: a complete or abort that sends the key of a handle as its filename,
\* with the handle's upload id, addresses the (key, upload id) pair that
\* initiate opened, and that upload still has the handle's key.
C12_HandleRoundTrip ==
    \A h \in handles :
        ( /\ last.op \in {"complete", "abort"}
          /\ last.request.uploadId = h.uploadId
          /\ last.request.filename = h.key )
        => /\ last.gw[1].Key = h.key
           /\ last.gw[1].UploadId = h.uploadId
           /\ uploads[h.uploadId].Key = h.key

====
